---- MODULE Spec2Model ----
(***************************************************************************)
(* Model of the knex instrumentation                                       *)
(* (plugins/node/opentelemetry-instrumentation-knex/src/instrumentation.ts)*)
(*                                                                         *)
(* State: the instrumentation's effective configuration, the patched       *)
(* prototypes of the host library (Runner.prototype.query and the three    *)
(* builder factories of Client.prototype), the builders the host has       *)
(* produced (with the context captured on them), the query-execution       *)
(* calls in flight or finished, and the spans the tracer has started.      *)
(***************************************************************************)
EXTENDS Integers, Sequences, FiniteSets, TLC

VARIABLES
  config,        \* the instrumentation's effective configuration
  clientConfig,  \* this.client.config of the host's client
  proto,         \* the method slots of Runner.prototype and Client.prototype
  builders,      \* the builders the host's factories have returned
  calls,         \* the query-execution calls, by slot
  spans          \* the spans each call has started

vars == <<config, clientConfig, proto, builders, calls, spans>>

(***************************************************************************)
(* Bounds of the model.                                                    *)
(***************************************************************************)
MaxBuilders == 1
MaxCalls == 1
ShortLength == 2
\* Builders and call slots where executions interleave.
MaxInterleavedBuilders == 2
MaxInterleavedCalls == 2

(***************************************************************************)
(* JavaScript values: undefined, numbers, booleans, strings.  A text that  *)
(* is cut or searched is a sequence of one-character strings.              *)
(***************************************************************************)
Undefined == [t |-> "undefined"]
Num(n) == [t |-> "number", v |-> n]
Bool(b) == [t |-> "boolean", v |-> b]
Str(s) == [t |-> "string", v |-> s]

Truthy(x) ==
  CASE x.t = "undefined" -> FALSE
    [] x.t = "number" -> x.v # 0
    [] x.t = "boolean" -> x.v
    [] x.t = "string" -> x.v # ""
    [] OTHER -> TRUE

\* a || b
OrElse(a, b) == IF Truthy(a) THEN a ELSE b

\* obj.key on an object that exists
Get(obj, key) == IF key \in DOMAIN obj THEN obj[key] ELSE Undefined

\* obj?.key
OptGet(obj, key) == IF obj = Undefined THEN Undefined ELSE Get(obj, key)

(***************************************************************************)
(* Configuration.                                                          *)
(***************************************************************************)
DEFAULT_CONFIG ==
  [maxQueryLength |-> Num(1022), requireParentSpan |-> Bool(FALSE)]

\* { ...a, ...b }: every own property of b, explicit undefined included,
\* overrides the property of a.
Spread(a, b) ==
  [k \in DOMAIN a \cup DOMAIN b |-> IF k \in DOMAIN b THEN b[k] ELSE a[k]]

EmptyConfig == [k \in {} |-> Undefined]

MaxQueryLengthOptions == {Undefined, Num(0), Num(ShortLength)}
RequireParentSpanOptions == {Bool(FALSE), Bool(TRUE)}

\* The partial configurations a caller can pass (KnexInstrumentationConfig:
\* every option may be left out, or given, undefined included).
PartialConfigs ==
  {EmptyConfig}
    \cup {[maxQueryLength |-> m] : m \in MaxQueryLengthOptions}
    \cup {[requireParentSpan |-> r] : r \in RequireParentSpanOptions}
    \cup {[maxQueryLength |-> m, requireParentSpan |-> r] :
            m \in MaxQueryLengthOptions, r \in RequireParentSpanOptions}

\* Variant: the caller's options alone, the defaults left out.
MergedConfig_NoDefaults(c) == c

\* super.setConfig({ ...DEFAULT_CONFIG, ...config })
MergedConfig(c) == Spread(DEFAULT_CONFIG, c)

setConfig(c) ==
  /\ config' = MergedConfig(c)
  /\ UNCHANGED <<clientConfig, proto, builders, calls, spans>>

(***************************************************************************)
(* Tracing contexts.  A context is an immutable object that may hold a     *)
(* span; the span it holds has a valid span context or not.                *)
(***************************************************************************)
NoSpan == [kind |-> "none"]
InvalidSpan == [kind |-> "invalid"]
OuterSpan(n) == [kind |-> "outer", id |-> n]
KnexSpan(c, i) == [kind |-> "knex", call |-> c, index |-> i]

ROOT_CONTEXT == [t |-> "object", id |-> <<"ROOT">>, span |-> NoSpan]

\* The contexts application code can be running in.
AmbientContexts ==
  { ROOT_CONTEXT,
    [t |-> "object", id |-> <<"I">>, span |-> InvalidSpan],
    [t |-> "object", id |-> <<"A">>, span |-> OuterSpan("A")] }

\* api.trace.getSpan(context)
getSpan(ctx) == IF ctx.span = NoSpan THEN Undefined ELSE ctx.span

\* api.trace.isSpanContextValid(span.spanContext())
isSpanContextValid(span) == span.kind \in {"outer", "knex"}

\* api.trace.setSpan(context, span): a new context holding the span
setSpan(ctx, span) ==
  [t |-> "object", id |-> Append(ctx.id, "span"), span |-> span]

(***************************************************************************)
(* Method interception.  A method slot of a prototype is the original      *)
(* method under a stack of wrappers: <<>> is the original itself.          *)
(***************************************************************************)
ModuleVersion == "1.0.0"

Methods == {"query", "queryBuilder", "schemaBuilder", "raw"}
FactoryMethods == {"queryBuilder", "schemaBuilder", "raw"}

\* isWrapped(obj[methodName])
isWrapped(method) == Len(method) > 0

\* this._wrap(obj, methodName, wrapper): installs wrapper(obj[methodName])
Wrap(obj, methodName, wrapper) ==
  [obj EXCEPT ![methodName] = Append(@, wrapper)]

\* this._unwrap(obj, methodName): restores what the installed wrapper
\* wraps; on an unwrapped method it only logs.
Unwrap(obj, methodName) ==
  IF isWrapped(obj[methodName])
    THEN [obj EXCEPT ![methodName] = SubSeq(@, 1, Len(@) - 1)]
    ELSE obj

\* Variant: wraps without restoring an already wrapped method first.
ensureWrapped_NoGuard(obj, methodName, wrapper) ==
  Wrap(obj, methodName, wrapper)

ensureWrapped(obj, methodName, wrapper) ==
  LET restored == IF isWrapped(obj[methodName])
                    THEN Unwrap(obj, methodName)
                    ELSE obj
  IN Wrap(restored, methodName, wrapper)

createQueryWrapper(moduleVersion) ==
  [wrapper |-> "wrapQuery", moduleVersion |-> moduleVersion]

storeContextWrapper == [wrapper |-> "storeContext"]

\* patch of knex/<basePath>/runner.js
PatchRunner ==
  /\ proto' = ensureWrapped(proto, "query", createQueryWrapper(ModuleVersion))
  /\ UNCHANGED <<config, clientConfig, builders, calls, spans>>

\* unpatch of knex/<basePath>/runner.js
UnpatchRunner ==
  /\ proto' = Unwrap(proto, "query")
  /\ UNCHANGED <<config, clientConfig, builders, calls, spans>>

\* patch of knex/<basePath>/client.js
PatchClient ==
  /\ proto' =
       ensureWrapped(
         ensureWrapped(
           ensureWrapped(proto, "queryBuilder", storeContextWrapper),
           "schemaBuilder", storeContextWrapper),
         "raw", storeContextWrapper)
  /\ UNCHANGED <<config, clientConfig, builders, calls, spans>>

\* unpatch of knex/<basePath>/client.js
UnpatchClient ==
  /\ proto' = Unwrap(Unwrap(Unwrap(proto, "queryBuilder"), "schemaBuilder"), "raw")
  /\ UNCHANGED <<config, clientConfig, builders, calls, spans>>

(***************************************************************************)
(* Builders.  A builder is an object of the host; the wrapped factories    *)
(* define the property contextSymbol on it.                                *)
(***************************************************************************)
\* What the host's factory returns: only the query builder names a table.
\* createdIn records the context that was ambient when the factory ran; it
\* is history kept for the properties, not a property the program reads.
NewBuilder(method, active) ==
  IF method = "queryBuilder"
    THEN [table |-> Str("users"), createdIn |-> active]
    ELSE [createdIn |-> active]

\* Object.defineProperty(builder, contextSymbol, { value: api.context.active() })
storeContext(builder, active) ==
  [k \in DOMAIN builder \cup {"contextSymbol"} |->
     IF k = "contextSymbol" THEN active ELSE builder[k]]

\* client.queryBuilder(), client.schemaBuilder() or client.raw(), called
\* while the context `active` is the ambient one, the host having made
\* fewer than `limit` builders.
CreateBuilderWithin(limit, method, active) ==
  /\ Len(builders) < limit
  /\ LET builder == NewBuilder(method, active)
     IN builders' =
          Append(builders,
                 IF isWrapped(proto[method])
                   THEN storeContext(builder, active)
                   ELSE builder)
  /\ UNCHANGED <<config, clientConfig, proto, calls, spans>>

CreateBuilder(method, active) ==
  CreateBuilderWithin(MaxBuilders, method, active)

(***************************************************************************)
(* The host's client configuration and query descriptors.                  *)
(***************************************************************************)
ClientConfigs ==
  { [client |-> Str("sqlite3"), connection |-> [filename |-> Str(":memory:")]],
    [client |-> Str("pg"),
     connection |-> [database |-> Str("db"), user |-> Str("u"),
                     host |-> Str("h"), port |-> Num(5432)]] }

Queries ==
  { [method |-> Str("select"), sql |-> Str(<<"s", "?">>), bindings |-> <<"7">>],
    [method |-> Str("raw"), sql |-> Str(<<"r", "1", "2">>)] }

\* Client configurations with parts missing: no configuration object, no
\* connection, no client name, a connection with a single field, a file
\* other than the in-memory one.
PartialClientConfigs ==
  { Undefined,
    [client |-> Str("pg")],
    [connection |-> [filename |-> Str(":memory:")]],
    [client |-> Str("mysql"), connection |-> [user |-> Str("u")]],
    [client |-> Str("sqlite3"), connection |-> [filename |-> Str("f.db")]] }

\* Query descriptors with the method or the sql missing.
PartialQueries ==
  { [sql |-> Str(<<"r">>)],
    [method |-> Str("select")] }

(***************************************************************************)
(* Texts.                                                                  *)
(***************************************************************************)
Separator == <<" ", "-", " ">>

\* The host's formatting rule: each placeholder takes the next binding.
RECURSIVE Format(_, _)
Format(sql, bindings) ==
  IF sql = <<>> THEN <<>>
  ELSE IF Head(sql) = "?" /\ bindings # <<>>
    THEN <<Head(bindings)>> \o Format(Tail(sql), Tail(bindings))
    ELSE <<Head(sql)>> \o Format(Tail(sql), bindings)

\* utils.getFormatter(this)(query.sql, query.bindings || [])
fullQuery(query) ==
  Format(query.sql.v,
         IF "bindings" \in DOMAIN query THEN query.bindings ELSE <<>>)

\* Least index at which pattern occurs in text, 0 when it does not occur.
IndexOf(text, pattern) ==
  LET hits == {i \in 1..(Len(text) - Len(pattern) + 1) :
                 SubSeq(text, i, i + Len(pattern) - 1) = pattern}
  IN IF hits = {} THEN 0 ELSE CHOOSE i \in hits : \A j \in hits : i <= j

\* text.replace(pattern, '') with a string pattern: the first occurrence of
\* the pattern, wherever it is, is removed.
Replace(text, pattern) ==
  LET i == IndexOf(text, pattern)
  IN IF i = 0 THEN text
     ELSE SubSeq(text, 1, i - 1) \o SubSeq(text, i + Len(pattern), Len(text))

\* const message = err.message.replace(fullQuery + ' - ', '')
cleanedMessage(err, query) ==
  Replace(err.message, fullQuery(query) \o Separator)

\* utils.otelExceptionFromKnexError(err, message): a copy for the span
otelExceptionFromKnexError(err, message) ==
  [name |-> err.name, message |-> message]

(***************************************************************************)
(* Attribute extraction.                                                   *)
(***************************************************************************)
\* utils.extractTableName(this.builder)
extractTableName(builder) == Get(builder, "table")

\* utils.mapSystem(config.client)
mapSystem(client) ==
  CASE client = Str("sqlite3") -> Str("sqlite")
    [] client = Str("pg") -> Str("postgresql")
    [] OTHER -> client

\* utils.limitLength(query?.sql, maxQueryLength)
limitLength(str, maxLength) ==
  IF str = Undefined THEN Undefined
  ELSE IF maxLength.v < Len(str.v)
    THEN Str(SubSeq(str.v, 1, maxLength.v))
    ELSE str

\* utils.getName(name, operation, table): the parts that are present
getName(name, operation, table) ==
  SelectSeq(<<operation, name, table>>, LAMBDA p : p # Undefined)

\* config?.connection?.filename || config?.connection?.database
databaseName(cfg) ==
  OrElse(OptGet(OptGet(cfg, "connection"), "filename"),
         OptGet(OptGet(cfg, "connection"), "database"))

\* Variant: any file makes the transport in-process.
baseAttributes_AnyFile(cfg, builder, query, moduleVersion) ==
  [k \in {"knex.version", "db.system", "db.sql.table", "db.operation",
          "db.user", "db.name", "net.peer.name", "net.peer.port",
          "net.transport"} |->
     CASE k = "knex.version" -> Str(moduleVersion)
       [] k = "db.system" -> mapSystem(Get(cfg, "client"))
       [] k = "db.sql.table" -> extractTableName(builder)
       [] k = "db.operation" -> OptGet(query, "method")
       [] k = "db.user" -> OptGet(OptGet(cfg, "connection"), "user")
       [] k = "db.name" -> databaseName(cfg)
       [] k = "net.peer.name" -> OptGet(OptGet(cfg, "connection"), "host")
       [] k = "net.peer.port" -> OptGet(OptGet(cfg, "connection"), "port")
       [] k = "net.transport" ->
            IF OptGet(OptGet(cfg, "connection"), "filename") # Undefined
              THEN Str("inproc")
              ELSE Undefined]

\* The attributes object literal.
baseAttributes(cfg, builder, query, moduleVersion) ==
  [k \in {"knex.version", "db.system", "db.sql.table", "db.operation",
          "db.user", "db.name", "net.peer.name", "net.peer.port",
          "net.transport"} |->
     CASE k = "knex.version" -> Str(moduleVersion)
       [] k = "db.system" -> mapSystem(Get(cfg, "client"))
       [] k = "db.sql.table" -> extractTableName(builder)
       [] k = "db.operation" -> OptGet(query, "method")
       [] k = "db.user" -> OptGet(OptGet(cfg, "connection"), "user")
       [] k = "db.name" -> databaseName(cfg)
       [] k = "net.peer.name" -> OptGet(OptGet(cfg, "connection"), "host")
       [] k = "net.peer.port" -> OptGet(OptGet(cfg, "connection"), "port")
       [] k = "net.transport" ->
            IF OptGet(OptGet(cfg, "connection"), "filename") = Str(":memory:")
              THEN Str("inproc")
              ELSE Undefined]

\* Variant: sets the statement whatever maxQueryLength is.
withStatement_Always(attributes, query, maxQueryLength) ==
  [k \in DOMAIN attributes \cup {"db.statement"} |->
     IF k = "db.statement"
       THEN IF maxQueryLength = Undefined
              THEN OptGet(query, "sql")
              ELSE limitLength(OptGet(query, "sql"), maxQueryLength)
       ELSE attributes[k]]

\* if (maxQueryLength) attributes[SEMATTRS_DB_STATEMENT] = limitLength(...)
withStatement(attributes, query, maxQueryLength) ==
  IF Truthy(maxQueryLength)
    THEN [k \in DOMAIN attributes \cup {"db.statement"} |->
            IF k = "db.statement"
              THEN limitLength(OptGet(query, "sql"), maxQueryLength)
              ELSE attributes[k]]
    ELSE attributes

(***************************************************************************)
(* Promises and spans.                                                     *)
(***************************************************************************)
Pending == [kind |-> "pending"]
Fulfilled(value) == [kind |-> "fulfilled", value |-> value]
Rejected(reason) == [kind |-> "rejected", reason |-> reason]

\* An exception thrown at the caller, and the mark of an original that was
\* not invoked.
Thrown(error) == [kind |-> "thrown", error |-> error]
NotInvoked == [kind |-> "none"]

\* What the host's query method can resolve with.
Results == {"rows"}

DriverMessage == <<"e">>

\* The messages of the errors the host can raise for a query: the driver's
\* message behind the interpolated query (what the host's client makes of a
\* driver error), a message without it (an error raised before the driver
\* ran), and a message that quotes the query further in.
HostMessages(query) ==
  { fullQuery(query) \o Separator \o DriverMessage,
    DriverMessage,
    <<"x">> \o fullQuery(query) \o Separator \o DriverMessage }

\* instrumentation.tracer.startSpan(name, { kind, attributes }, parentContext)
startSpan(name, attributes, parentContext) ==
  [name |-> name, kind |-> "CLIENT", attributes |-> attributes,
   parent |-> parentContext, ended |-> 0, status |-> [code |-> "UNSET"],
   exceptions |-> <<>>]

\* span.end()
end(span) == [span EXCEPT !.ended = @ + 1]

\* span.recordException(exc): an ended span takes no event any more
recordException(span, exc) ==
  IF span.ended > 0 THEN span ELSE [span EXCEPT !.exceptions = Append(@, exc)]

\* span.setStatus(status): an ended span keeps its status
setStatus(span, status) ==
  IF span.ended > 0 THEN span ELSE [span EXCEPT !.status = status]

\* api.context.with(context, fn, thisArg, ...args): fn runs with context as
\* the ambient one, and the context that was ambient before is the ambient
\* one again when the call has returned.
contextWith(active, context) == [during |-> context, after |-> active]

(***************************************************************************)
(* The query wrapper.                                                      *)
(***************************************************************************)
\* A call slot no call occupies.
Idle == [path |-> "idle", received |-> Fulfilled("idle")]

\* Variant: the ambient context, whatever the builder carries.
parentContextOf_Ambient(builder, active) == active

\* this.builder[contextSymbol] || api.context.active()
parentContextOf(builder, active) ==
  OrElse(Get(builder, "contextSymbol"), active)

\* parentSpan && api.trace.isSpanContextValid(parentSpan.spanContext())
hasActiveParent(parentContext) ==
  LET parentSpan == getSpan(parentContext)
  IN parentSpan # Undefined /\ isSpanContextValid(parentSpan)

\* Variant: the negation left out.
shortCircuits_NoNegation(cfg, parentContext) ==
  Truthy(cfg.requireParentSpan) /\ hasActiveParent(parentContext)

\* instrumentation._config.requireParentSpan && !hasActiveParent
shortCircuits(cfg, parentContext) ==
  Truthy(cfg.requireParentSpan) /\ ~hasActiveParent(parentContext)

\* The calls the wrapper makes while it builds the attributes object.
attributeSteps(maxQueryLength) ==
  <<"extractTableName", "mapSystem">>
    \o (IF Truthy(maxQueryLength) THEN <<"limitLength">> ELSE <<>>)

\* A call of the original query method: receiver (the runner of builder b),
\* arguments and the context that is the ambient one while it runs.
Invocation(b, query, active) ==
  [this |-> b, arguments |-> <<query>>, active |-> active]

\* return original.bind(this)(...arguments): the caller gets the original's
\* promise; steps are the calls made before.
bypassCall(b, active, query, steps) ==
  [call |-> [builder |-> b, ambient |-> active, query |-> query,
             path |-> "bypass",
             invoked |-> Invocation(b, query, active),
             after |-> active,
             returned |-> "original",
             host |-> Pending, chain |-> Pending, received |-> Pending,
             trace |-> steps \o <<"original">>],
   started |-> <<>>]

\* Variant: the original is invoked without the span made active.
tracedCall_NotActivated(c, b, active, query, steps, span) ==
  [call |-> [builder |-> b, ambient |-> active, query |-> query,
             path |-> "traced",
             invoked |-> Invocation(b, query, active),
             after |-> active,
             returned |-> "chain",
             host |-> Pending, chain |-> Pending, received |-> Pending,
             trace |-> steps \o <<"startSpan", "original">>],
   started |-> <<span>>]

\* startSpan, then api.context.with(spanContext, original, this,
\* ...arguments).then(...).catch(...): the caller gets the chained promise.
\* The span of the call in slot c is KnexSpan(c, 1).
tracedCall(c, b, active, query, steps, span) ==
  LET spanContext == setSpan(active, KnexSpan(c, 1))
      scope == contextWith(active, spanContext)
  IN [call |-> [builder |-> b, ambient |-> active, query |-> query,
                path |-> "traced",
                invoked |-> Invocation(b, query, scope.during),
                after |-> scope.after,
                returned |-> "chain",
                host |-> Pending, chain |-> Pending, received |-> Pending,
                trace |-> steps \o <<"startSpan", "original">>],
      started |-> <<span>>]

\* config.client on a configuration that is undefined: the property read
\* throws a TypeError.
readThrows(cfg) == cfg = Undefined

\* The attributes object literal throws: the wrapper is left before the
\* original is invoked, and the caller gets the TypeError.
thrownCall(b, active, query) ==
  [call |-> [builder |-> b, ambient |-> active, query |-> query,
             path |-> "threw",
             invoked |-> NotInvoked,
             after |-> active,
             returned |-> "nothing",
             host |-> NotInvoked, chain |-> NotInvoked,
             received |-> Thrown([name |-> "TypeError"]),
             trace |-> <<"extractTableName">>],
   started |-> <<>>]

\* Variant: decides the bypass first and builds the attributes only for a
\* span.
wrapped_logging_method_CheckFirst(c, b, active, query, moduleVersion) ==
  LET parentContext == parentContextOf(builders[b], active)
  IN IF shortCircuits(config, parentContext)
       THEN bypassCall(b, active, query, <<>>)
       ELSE tracedCall(c, b, active, query,
                       attributeSteps(config.maxQueryLength),
                       startSpan(getName(databaseName(clientConfig),
                                         OptGet(query, "method"),
                                         extractTableName(builders[b])),
                                 withStatement(
                                   baseAttributes(clientConfig, builders[b],
                                                  query, moduleVersion),
                                   query, config.maxQueryLength),
                                 parentContext))

\* Variant: the options are the defaults, whatever configuration is in
\* force when the call is made.
wrapped_logging_method_Defaults(c, b, active, query, moduleVersion) ==
  LET cfg == clientConfig
      table == extractTableName(builders[b])
      operation == OptGet(query, "method")
      name == databaseName(cfg)
      maxQueryLength == DEFAULT_CONFIG.maxQueryLength
      attributes ==
        withStatement(baseAttributes(cfg, builders[b], query, moduleVersion),
                      query, maxQueryLength)
      steps == attributeSteps(maxQueryLength)
      parentContext == parentContextOf(builders[b], active)
  IN IF readThrows(cfg)
       THEN thrownCall(b, active, query)
     ELSE IF shortCircuits(DEFAULT_CONFIG, parentContext)
       THEN bypassCall(b, active, query, steps)
       ELSE tracedCall(c, b, active, query, steps,
                       startSpan(getName(name, operation, table), attributes,
                                 parentContext))

\* wrapped_logging_method up to its return: the call record and the spans
\* it started.  c is the call's slot, b the builder of the runner it is
\* called on, active the ambient context.
wrapped_logging_method(c, b, active, query, moduleVersion) ==
  LET cfg == clientConfig
      table == extractTableName(builders[b])
      operation == OptGet(query, "method")
      name == databaseName(cfg)
      maxQueryLength == config.maxQueryLength
      attributes ==
        withStatement(baseAttributes(cfg, builders[b], query, moduleVersion),
                      query, maxQueryLength)
      steps == attributeSteps(maxQueryLength)
      parentContext == parentContextOf(builders[b], active)
  IN IF readThrows(cfg)
       THEN thrownCall(b, active, query)
     ELSE IF shortCircuits(config, parentContext)
       THEN bypassCall(b, active, query, steps)
       ELSE tracedCall(c, b, active, query, steps,
                       startSpan(getName(name, operation, table), attributes,
                                 parentContext))

\* The installed method is the original: no wrapper runs.
unwrappedCall(b, active, query) ==
  [call |-> [builder |-> b, ambient |-> active, query |-> query,
             path |-> "unwrapped",
             invoked |-> Invocation(b, query, active),
             after |-> active,
             returned |-> "original",
             host |-> Pending, chain |-> Pending, received |-> Pending,
             trace |-> <<"original">>],
   started |-> <<>>]

\* Variant: the execution writes its ambient context over the one the
\* builder carries.
Query_Recaptures(c, b, active, query) ==
  /\ calls[c].received # Pending
  /\ b \in 1..Len(builders)
  /\ LET r == IF isWrapped(proto["query"])
                THEN wrapped_logging_method(
                       c, b, active, query,
                       proto["query"][Len(proto["query"])].moduleVersion)
                ELSE unwrappedCall(b, active, query)
     IN /\ calls' = [calls EXCEPT ![c] = r.call]
        /\ spans' = [spans EXCEPT ![c] = r.started]
  /\ builders' = [builders EXCEPT ![b] = storeContext(@, active)]
  /\ UNCHANGED <<config, clientConfig, proto>>

\* runner.query(query) on the runner of builder b, called while `active`
\* is the ambient context; the call takes slot c, which no call whose
\* caller still waits occupies.
Query(c, b, active, query) ==
  /\ calls[c].received # Pending
  /\ b \in 1..Len(builders)
  /\ LET r == IF isWrapped(proto["query"])
                THEN wrapped_logging_method(
                       c, b, active, query,
                       proto["query"][Len(proto["query"])].moduleVersion)
                ELSE unwrappedCall(b, active, query)
     IN /\ calls' = [calls EXCEPT ![c] = r.call]
        /\ spans' = [spans EXCEPT ![c] = r.started]
  /\ UNCHANGED <<config, clientConfig, proto, builders>>

\* A call whose original method has been invoked and has not settled.
InFlight(c) == calls[c].path # "idle" /\ calls[c].host = Pending

\* The original's promise resolves.
HostResolves(c, value) ==
  /\ InFlight(c)
  /\ calls' = [calls EXCEPT ![c].host = Fulfilled(value)]
  /\ UNCHANGED <<config, clientConfig, proto, builders, spans>>

\* The original's promise rejects with a fresh error of the host.
HostRejects(c, message) ==
  /\ InFlight(c)
  /\ message \in HostMessages(calls[c].query)
  /\ calls' = [calls EXCEPT
                 ![c].host = Rejected([id |-> c, name |-> "Error",
                                       message |-> message])]
  /\ UNCHANGED <<config, clientConfig, proto, builders, spans>>

\* Variant: the span is left open on success.
onFulfilled_NoEnd(span, result) ==
  [span |-> span, settled |-> Fulfilled(result), steps |-> <<>>]

\* .then((result) => { span.end(); return result; })
onFulfilled(span, result) ==
  [span |-> end(span), settled |-> Fulfilled(result), steps |-> <<"end">>]

\* Variant: the cleaned message is written to the host's error.
onRejected_Mutates(span, err, query) ==
  LET message == cleanedMessage(err, query)
      exc == otelExceptionFromKnexError(err, message)
  IN [span |-> end(setStatus(recordException(span, exc),
                             [code |-> "ERROR", message |-> message])),
      settled |-> Rejected([err EXCEPT !.message = message]),
      steps |-> <<"recordException", "setStatus", "end", "throw">>]

\* Variant: the span is left open on failure.
onRejected_NoEnd(span, err, query) ==
  LET message == cleanedMessage(err, query)
      exc == otelExceptionFromKnexError(err, message)
  IN [span |-> setStatus(recordException(span, exc),
                         [code |-> "ERROR", message |-> message]),
      settled |-> Rejected(err),
      steps |-> <<"recordException", "setStatus", "throw">>]

\* Variant: the span is ended first, then the exception and the status
\* are handed to it.
onRejected_EndFirst(span, err, query) ==
  LET message == cleanedMessage(err, query)
      exc == otelExceptionFromKnexError(err, message)
  IN [span |-> setStatus(recordException(end(span), exc),
                         [code |-> "ERROR", message |-> message]),
      settled |-> Rejected(err),
      steps |-> <<"end", "recordException", "setStatus", "throw">>]

\* .catch((err) => { ...; span.recordException(exc);
\*   span.setStatus({ code: ERROR, message }); span.end(); throw err; })
onRejected(span, err, query) ==
  LET message == cleanedMessage(err, query)
      exc == otelExceptionFromKnexError(err, message)
  IN [span |-> end(setStatus(recordException(span, exc),
                             [code |-> "ERROR", message |-> message])),
      settled |-> Rejected(err),
      steps |-> <<"recordException", "setStatus", "end", "throw">>]

\* Variant: the callbacks end every open span, not only the call's own.
Reaction_EndsAll(c) ==
  /\ calls[c].path = "traced"
  /\ calls[c].host # Pending
  /\ calls[c].chain = Pending
  /\ LET r == IF calls[c].host.kind = "fulfilled"
                THEN onFulfilled(spans[c][1], calls[c].host.value)
                ELSE onRejected(spans[c][1], calls[c].host.reason,
                                calls[c].query)
     IN /\ spans' = [d \in DOMAIN spans |->
                       IF d = c THEN <<r.span>>
                       ELSE IF spans[d] # <<>> /\ spans[d][1].ended = 0
                         THEN <<end(spans[d][1])>>
                         ELSE spans[d]]
        /\ calls' = [calls EXCEPT ![c].chain = r.settled,
                                  ![c].trace = @ \o r.steps]
  /\ UNCHANGED <<config, clientConfig, proto, builders>>

\* The reaction of the promise chain to the original's settlement: the
\* then-callback when it resolved, the catch-callback when it rejected.
Reaction(c) ==
  /\ calls[c].path = "traced"
  /\ calls[c].host # Pending
  /\ calls[c].chain = Pending
  /\ LET r == IF calls[c].host.kind = "fulfilled"
                THEN onFulfilled(spans[c][1], calls[c].host.value)
                ELSE onRejected(spans[c][1], calls[c].host.reason,
                                calls[c].query)
     IN /\ spans' = [spans EXCEPT ![c][1] = r.span]
        /\ calls' = [calls EXCEPT ![c].chain = r.settled,
                                  ![c].trace = @ \o r.steps]
  /\ UNCHANGED <<config, clientConfig, proto, builders>>

\* The promise the caller holds, as settled so far.
heldPromise(call) ==
  IF call.returned = "chain" THEN call.chain ELSE call.host

\* The caller's continuation runs with the settlement of the promise the
\* intercepted method returned.
CallerReceives(c) ==
  /\ calls[c].received = Pending
  /\ heldPromise(calls[c]) # Pending
  /\ calls' = [calls EXCEPT ![c].received = heldPromise(calls[c])]
  /\ UNCHANGED <<config, clientConfig, proto, builders, spans>>

(***************************************************************************)
(* Specification.                                                          *)
(***************************************************************************)
\* new KnexInstrumentation(config): { ...DEFAULT_CONFIG, ...config }
Init ==
  /\ config \in {MergedConfig(c) : c \in PartialConfigs}
  /\ clientConfig \in ClientConfigs
  /\ proto = [m \in Methods |-> <<>>]
  /\ builders = <<>>
  /\ calls = [c \in 1..MaxCalls |-> Idle]
  /\ spans = [c \in 1..MaxCalls |-> <<>>]

Next ==
  \/ \E c \in PartialConfigs : setConfig(c)
  \/ PatchRunner
  \/ UnpatchRunner
  \/ PatchClient
  \/ UnpatchClient
  \/ \E m \in FactoryMethods, a \in AmbientContexts : CreateBuilder(m, a)
  \/ \E c \in 1..MaxCalls, b \in 1..MaxBuilders, a \in AmbientContexts,
        q \in Queries : Query(c, b, a, q)
  \/ \E c \in 1..MaxCalls, v \in Results : HostResolves(c, v)
  \/ \E c \in 1..MaxCalls, m \in UNION {HostMessages(q) : q \in Queries} :
       HostRejects(c, m)
  \/ \E c \in 1..MaxCalls : Reaction(c)
  \/ \E c \in 1..MaxCalls : CallerReceives(c)

Spec == Init /\ [][Next]_vars

\* The instrumentation's own life cycle: configuration, patching and
\* unpatching of the host's prototypes, and the host's factories, without
\* query executions (which change neither config nor proto).
NextLifecycle ==
  \/ \E c \in PartialConfigs : setConfig(c)
  \/ PatchRunner
  \/ UnpatchRunner
  \/ PatchClient
  \/ UnpatchClient
  \/ \E m \in FactoryMethods, a \in AmbientContexts : CreateBuilder(m, a)

SpecLifecycle == Init /\ [][NextLifecycle]_vars

\* Attribute extraction over hosts whose client configuration or query
\* descriptor has parts missing: the instrumentation is constructed with the
\* defaults or with requireParentSpan, the prototypes are patched, builders
\* are made and executed, and the original resolves.
InitAttributes ==
  /\ config \in {MergedConfig(EmptyConfig),
                 MergedConfig([requireParentSpan |-> Bool(TRUE)])}
  /\ clientConfig \in ClientConfigs \cup PartialClientConfigs
  /\ proto = [m \in Methods |-> <<>>]
  /\ builders = <<>>
  /\ calls = [c \in 1..MaxCalls |-> Idle]
  /\ spans = [c \in 1..MaxCalls |-> <<>>]

NextAttributes ==
  \/ PatchRunner
  \/ PatchClient
  \/ \E m \in FactoryMethods, a \in AmbientContexts : CreateBuilder(m, a)
  \/ \E c \in 1..MaxCalls, b \in 1..MaxBuilders, a \in AmbientContexts,
        q \in Queries \cup PartialQueries : Query(c, b, a, q)
  \/ \E c \in 1..MaxCalls, v \in Results : HostResolves(c, v)
  \/ \E c \in 1..MaxCalls : Reaction(c)
  \/ \E c \in 1..MaxCalls : CallerReceives(c)

SpecAttributes == InitAttributes /\ [][NextAttributes]_vars

\* Interleaved executions: several builders of one client, made by the
\* query-builder factory under a context with or without a span, executed
\* in several call slots at once, with the configuration changed in
\* between.  The instrumentation is constructed with the defaults.
InterleavedConfigs ==
  {EmptyConfig, [maxQueryLength |-> Num(0), requireParentSpan |-> Bool(TRUE)]}

InterleavedContexts == {a \in AmbientContexts : a.span # InvalidSpan}

InterleavedQueries == {q \in Queries : "bindings" \in DOMAIN q}

InitInterleaved ==
  /\ config = MergedConfig(EmptyConfig)
  /\ clientConfig \in {cc \in ClientConfigs : cc.client = Str("pg")}
  /\ proto = [m \in Methods |-> <<>>]
  /\ builders = <<>>
  /\ calls = [c \in 1..MaxInterleavedCalls |-> Idle]
  /\ spans = [c \in 1..MaxInterleavedCalls |-> <<>>]

NextInterleaved ==
  \/ \E c \in InterleavedConfigs : setConfig(c)
  \/ PatchRunner
  \/ PatchClient
  \/ \E a \in InterleavedContexts :
       CreateBuilderWithin(MaxInterleavedBuilders, "queryBuilder", a)
  \/ \E c \in 1..MaxInterleavedCalls, b \in 1..MaxInterleavedBuilders,
        a \in InterleavedContexts, q \in InterleavedQueries :
       Query(c, b, a, q)
  \/ \E c \in 1..MaxInterleavedCalls, v \in Results : HostResolves(c, v)
  \/ \E c \in 1..MaxInterleavedCalls,
        m \in {fullQuery(q) \o Separator \o DriverMessage :
                q \in InterleavedQueries} :
       HostRejects(c, m)
  \/ \E c \in 1..MaxInterleavedCalls : Reaction(c)
  \/ \E c \in 1..MaxInterleavedCalls : CallerReceives(c)

SpecInterleaved == InitInterleaved /\ [][NextInterleaved]_vars

(***************************************************************************)
(* Properties.                                                             *)
(***************************************************************************)
\* The call slots.
Calls == DOMAIN calls

\* The step in which the query method is called in slot c.
QueryStarts(c) ==
  /\ calls[c].received # Pending
  /\ calls'[c].received = Pending

\* The call in slot c went through the wrapper.
Intercepted(call) == call.path \in {"traced", "bypass"}

\* The context holds a span whose span context is valid.
HoldsValidSpan(ctx) == ctx.span.kind \in {"outer", "knex"}

\* The context a builder resolves to under an ambient context: the one
\* captured on it, else the ambient one.
ResolvedContext(builder, ambient) ==
  IF "contextSymbol" \in DOMAIN builder THEN builder.contextSymbol ELSE ambient

\* text begins with prefix
StartsWith(text, prefix) ==
  Len(prefix) <= Len(text) /\ SubSeq(text, 1, Len(prefix)) = prefix

\* C1: with requireParentSpan falsy, every intercepted call starts exactly
\* one span, and that span is ended exactly once: it is open until the
\* promise chain has reacted to the original's resolution or rejection,
\* ended once from then on, and the caller never receives before that.
C1_OneSpanEndedOnce ==
  /\ [][\A c \in Calls :
          (/\ QueryStarts(c)
           /\ Intercepted(calls'[c])
           /\ ~Truthy(config.requireParentSpan))
            => /\ calls'[c].path = "traced"
               /\ Len(spans'[c]) = 1
               /\ spans'[c][1].ended = 0]_vars
  /\ [](\A c \in Calls :
          calls[c].path = "traced"
            => /\ Len(spans[c]) = 1
               /\ spans[c][1].ended = (IF calls[c].chain = Pending THEN 0 ELSE 1)
               /\ (calls[c].received # Pending => spans[c][1].ended = 1))

\* A call without a valid parent was traced, its original rejected, and the
\* caller has received the rejection.
C1_Witness ==
  \E c \in Calls :
    /\ calls[c].path = "traced"
    /\ ~HoldsValidSpan(spans[c][1].parent)
    /\ calls[c].received.kind = "rejected"
    /\ spans[c][1].ended = 1

\* C2: with requireParentSpan truthy, an intercepted call whose resolved
\* context holds no valid span starts no span, calls the original with the
\* receiver and the arguments it was called with, under the unchanged
\* ambient context, and hands the caller the original's own promise: what
\* the caller receives is the original's resolution or rejection.
C2_NoParentPassThrough ==
  /\ [][\A c \in Calls :
          (/\ QueryStarts(c)
           /\ Intercepted(calls'[c])
           /\ Truthy(config.requireParentSpan)
           /\ ~HoldsValidSpan(ResolvedContext(builders[calls'[c].builder],
                                              calls'[c].ambient)))
            => /\ spans'[c] = <<>>
               /\ calls'[c].path = "bypass"
               /\ calls'[c].invoked =
                    [this |-> calls'[c].builder,
                     arguments |-> <<calls'[c].query>>,
                     active |-> calls'[c].ambient]]_vars
  /\ [](\A c \in Calls :
          calls[c].path = "bypass"
            => /\ spans[c] = <<>>
               /\ (calls[c].received # Pending
                     => calls[c].received = calls[c].host))

\* A call was passed through although the ambient context held a valid
\* span (the context captured on the builder held none), and the caller
\* has received the original's rejection.
C2_Witness ==
  \E c \in Calls :
    /\ calls[c].path = "bypass"
    /\ "contextSymbol" \in DOMAIN builders[calls[c].builder]
    /\ HoldsValidSpan(calls[c].ambient)
    /\ calls[c].received.kind = "rejected"

\* C3: when the original fails on the traced path, the chained promise
\* rejects with the error the host raised, same identity and same message,
\* and that is what the caller receives.
C3_OriginalErrorRethrown ==
  \A c \in Calls :
    (calls[c].path = "traced" /\ calls[c].host.kind = "rejected")
      => /\ (calls[c].chain # Pending => calls[c].chain = calls[c].host)
         /\ (calls[c].received # Pending => calls[c].received = calls[c].host)

\* The caller has received the host's error while the span recorded a
\* message that differs from the error's.
C3_Witness ==
  \E c \in Calls :
    /\ calls[c].path = "traced"
    /\ calls[c].received.kind = "rejected"
    /\ spans[c][1].status.message # calls[c].received.reason.message

\* C4: a builder returned by a wrapped factory carries the context that was
\* ambient at its creation, and a traced execution on it has that context
\* as the span's parent whatever the ambient context of the execution; the
\* ambient context is the parent only for a builder that carries none.
C4_ParentIsCapturedContext ==
  /\ [][(Len(builders') = Len(builders) + 1
          /\ \A m \in FactoryMethods : isWrapped(proto[m]))
           => LET builder == builders'[Len(builders')]
              IN /\ "contextSymbol" \in DOMAIN builder
                 /\ builder.contextSymbol = builder.createdIn]_vars
  /\ [](\A c \in Calls :
          calls[c].path = "traced"
            => LET builder == builders[calls[c].builder]
               IN spans[c][1].parent =
                    (IF "contextSymbol" \in DOMAIN builder
                       THEN builder.createdIn
                       ELSE calls[c].ambient))

\* A builder created under a context holding a valid span was executed, and
\* traced, under another ambient context.
C4_Witness ==
  \E c \in Calls :
    /\ calls[c].path = "traced"
    /\ "contextSymbol" \in DOMAIN builders[calls[c].builder]
    /\ HoldsValidSpan(builders[calls[c].builder].createdIn)
    /\ calls[c].ambient # builders[calls[c].builder].createdIn
    /\ spans[c][1].parent = builders[calls[c].builder].createdIn

\* C5: whatever the sequence of patches and unpatches, no method is wrapped
\* more than one layer deep, and every unpatch, after one patch or after
\* several, leaves the original method installed.
C5_AtMostOneLayer ==
  /\ [](\A m \in Methods : Len(proto[m]) <= 1)
  /\ [][UnpatchRunner => proto'["query"] = <<>>]_vars
  /\ [][UnpatchClient => \A m \in FactoryMethods : proto'[m] = <<>>]_vars

\* Every method is wrapped.
C5_Witness == \A m \in Methods : Len(proto[m]) = 1

\* C6: when the original resolves on the traced path, the caller receives
\* only after the span has been ended, and receives the original's value.
C6_EndedBeforeResult ==
  \A c \in Calls :
    (/\ calls[c].path = "traced"
     /\ calls[c].host.kind = "fulfilled"
     /\ calls[c].received # Pending)
      => /\ spans[c][1].ended = 1
         /\ calls[c].received = calls[c].host

\* The caller of a traced call has received the original's value.
C6_Witness ==
  \E c \in Calls :
    /\ calls[c].path = "traced"
    /\ calls[c].received.kind = "fulfilled"
    /\ calls[c].received.value \in Results

\* What C7 expects the span to record for a host message.
PrefixStripped(message, query) ==
  LET prefix == fullQuery(query) \o Separator
  IN IF StartsWith(message, prefix)
       THEN SubSeq(message, Len(prefix) + 1, Len(message))
       ELSE message

\* C7: on the error path the message recorded on the span, in the exception
\* and in the status, is the host's message without the leading
\* '<interpolated query> - ' when it begins with it, and the host's message
\* unchanged otherwise.
C7_OnlyLeadingPrefixRemoved ==
  \A c \in Calls :
    (/\ calls[c].path = "traced"
     /\ calls[c].host.kind = "rejected"
     /\ calls[c].chain # Pending)
      => LET expected == PrefixStripped(calls[c].host.reason.message,
                                        calls[c].query)
         IN /\ spans[c][1].status = [code |-> "ERROR", message |-> expected]
            /\ Len(spans[c][1].exceptions) = 1
            /\ spans[c][1].exceptions[1].message = expected

\* C8: a traced call made while maxQueryLength is falsy starts a span
\* without a statement attribute; made while it is N > 0, the statement
\* attribute is the query's sql cut to its first N characters at most.
C8_StatementAttribute ==
  [][\A c \in Calls :
       (QueryStarts(c) /\ calls'[c].path = "traced")
         => LET maxQueryLength == config.maxQueryLength
                attributes == spans'[c][1].attributes
                sql == calls'[c].query.sql.v
            IN IF Truthy(maxQueryLength)
                 THEN /\ "db.statement" \in DOMAIN attributes
                      /\ Len(attributes["db.statement"].v) <= maxQueryLength.v
                      /\ Len(attributes["db.statement"].v) <= Len(sql)
                      /\ attributes["db.statement"].v =
                           SubSeq(sql, 1, Len(attributes["db.statement"].v))
                      /\ (Len(sql) <= maxQueryLength.v
                            => attributes["db.statement"].v = sql)
                 ELSE "db.statement" \notin DOMAIN attributes]_vars

\* A span carries a statement shorter than the sql of its query.
C8_Witness ==
  \E c \in Calls :
    /\ calls[c].path = "traced"
    /\ "db.statement" \in DOMAIN spans[c][1].attributes
    /\ Len(spans[c][1].attributes["db.statement"].v) = ShortLength
    /\ Len(calls[c].query.sql.v) > ShortLength

C10_NoAttributeComputation ==
  \A c \in Calls :
    calls[c].path = "bypass" => calls[c].trace[1] = "original"

\* C10 amended: on the short-circuit path the wrapper starts no span and
\* invokes the original once; the table name, the db system and, when
\* maxQueryLength is truthy, the cut statement have been computed before
\* the decision, and are handed to no span.
C10_AttributesComputedThenDropped ==
  /\ [][\A c \in Calls :
          (QueryStarts(c) /\ calls'[c].path = "bypass")
            => /\ spans'[c] = <<>>
               /\ calls'[c].trace =
                    (IF Truthy(config.maxQueryLength)
                       THEN <<"extractTableName", "mapSystem", "limitLength",
                              "original">>
                       ELSE <<"extractTableName", "mapSystem", "original">>)]_vars
  /\ [](\A c \in Calls :
          calls[c].path = "bypass"
            => /\ spans[c] = <<>>
               /\ calls[c].trace[Len(calls[c].trace)] = "original"
               /\ \A i \in 1..(Len(calls[c].trace) - 1) :
                    calls[c].trace[i] # "original")

\* A call was passed through after the statement had been cut, and the
\* caller has received.
C10_Witness ==
  \E c \in Calls :
    /\ calls[c].path = "bypass"
    /\ calls[c].trace[3] = "limitLength"
    /\ calls[c].received # Pending

\* The tracer sets an attribute on a span only when its value is defined.
Present(attributes, k) == k \in DOMAIN attributes /\ attributes[k] # Undefined

\* What is at a path of property names in an object, Undefined when a
\* property on the way is missing.
RECURSIVE At(_, _)
At(obj, path) ==
  IF path = <<>> THEN obj
  ELSE IF obj = Undefined \/ Head(path) \notin DOMAIN obj THEN Undefined
  ELSE At(obj[Head(path)], Tail(path))

\* C11: whatever is missing of the table, the operation, the sql, the
\* client configuration object, the connection or its fields, an intercepted
\* call throws nothing while it builds the attributes: the original is
\* invoked and the caller gets a promise.
C11_MissingValuesTolerated ==
  \A c \in Calls :
    calls[c].path # "idle"
      => /\ calls[c].invoked # NotInvoked
         /\ calls[c].received.kind # "thrown"

\* C13: on every span of a traced query the transport attribute is 'inproc'
\* when the connection's filename is ':memory:', and is not set when the
\* filename is anything else or when there is no filename or no connection.
C13_TransportInProcOnlyInMemory ==
  \A c \in Calls :
    calls[c].path = "traced"
      => LET attributes == spans[c][1].attributes
             filename == At(clientConfig, <<"connection", "filename">>)
         IN /\ filename = Str(":memory:")
                 => attributes["net.transport"] = Str("inproc")
            /\ filename # Str(":memory:")
                 => ~Present(attributes, "net.transport")

\* A query was traced on a client whose connection names a file other than
\* ':memory:', and its span has no transport attribute.
C13_Witness ==
  \E c \in Calls :
    /\ calls[c].path = "traced"
    /\ At(clientConfig, <<"connection", "filename">>) = Str("f.db")
    /\ ~Present(spans[c][1].attributes, "net.transport")
    /\ calls[c].received.kind = "fulfilled"

\* The last n elements of a sequence.
Last(seq, n) == SubSeq(seq, Len(seq) - n + 1, Len(seq))

\* C14: a span the wrapper started is active (not ended, status unset, no
\* exception) until the promise chain has reacted, and then ended exactly
\* once: with ERROR status and one recorded exception if and only if the
\* original failed, the steps then being record exception, set status, end,
\* re-raise in that order; and an ended span is never touched again.
C14_SpanLifecycle ==
  /\ [](\A c \in Calls :
          calls[c].path = "traced"
            => LET span == spans[c][1]
                   chain == calls[c].chain
               IN /\ chain = Pending
                       => /\ span.ended = 0
                          /\ span.status = [code |-> "UNSET"]
                          /\ span.exceptions = <<>>
                  /\ chain # Pending
                       => /\ span.ended = 1
                          /\ chain.kind = calls[c].host.kind
                          /\ (span.status.code = "ERROR"
                                <=> calls[c].host.kind = "rejected")
                          /\ Len(span.exceptions) =
                               (IF calls[c].host.kind = "rejected" THEN 1 ELSE 0)
                  /\ chain.kind = "rejected"
                       => Last(calls[c].trace, 4) =
                            <<"recordException", "setStatus", "end", "throw">>
                  /\ chain.kind = "fulfilled"
                       => Last(calls[c].trace, 1) = <<"end">>)
  /\ [][\A c \in Calls :
          (/\ calls[c].path = "traced"
           /\ spans[c][1].ended > 0
           /\ ~QueryStarts(c))
            => spans'[c] = spans[c]]_vars

\* The original of a traced call failed: its span is ended once with ERROR
\* status and the caller has received the rejection.
C14_Witness ==
  \E c \in Calls :
    /\ calls[c].path = "traced"
    /\ calls[c].received.kind = "rejected"
    /\ spans[c][1].ended = 1
    /\ spans[c][1].status.code = "ERROR"
    /\ Len(spans[c][1].exceptions) = 1

\* C15: the original of a traced call runs under the ambient context of
\* the call extended with the span the call started, and when the call has
\* returned the ambient context is the one the call was made in, which
\* does not hold that span.
C15_SpanActiveDuringCallOnly ==
  \A c \in Calls :
    calls[c].path = "traced"
      => /\ calls[c].invoked.active = setSpan(calls[c].ambient, KnexSpan(c, 1))
         /\ getSpan(calls[c].invoked.active) = KnexSpan(c, 1)
         /\ calls[c].after = calls[c].ambient
         /\ getSpan(calls[c].after) # KnexSpan(c, 1)

\* A traced call made under a context that holds a span of the application
\* has returned: its original ran under the new span, and the application's
\* span is the active one again.
C15_Witness ==
  \E c \in Calls :
    /\ calls[c].path = "traced"
    /\ HoldsValidSpan(calls[c].ambient)
    /\ getSpan(calls[c].invoked.active) = KnexSpan(c, 1)
    /\ getSpan(calls[c].after) = calls[c].ambient.span
    /\ calls[c].received # Pending

\* C12: a builder, once made, never changes, so the context captured on it
\* stays the one that was ambient when the factory ran; every traced
\* execution of a builder that carries a context has that context as its
\* span's parent, so two executions of one builder agree on it whatever
\* their ambient contexts.
C12_CapturedContextNeverChanges ==
  /\ [][\A b \in 1..Len(builders) : builders'[b] = builders[b]]_vars
  /\ [](\A b \in 1..Len(builders) :
          "contextSymbol" \in DOMAIN builders[b]
            => builders[b].contextSymbol = builders[b].createdIn)
  /\ [](\A c, d \in Calls :
          (/\ calls[c].path = "traced"
           /\ calls[d].path = "traced"
           /\ calls[c].builder = calls[d].builder
           /\ "contextSymbol" \in DOMAIN builders[calls[c].builder])
            => /\ spans[c][1].parent = spans[d][1].parent
               /\ spans[c][1].parent = builders[calls[c].builder].createdIn)

\* One builder was executed twice under two different ambient contexts, and
\* both spans have the context of the builder's creation as parent.
C12_Witness ==
  \E c, d \in Calls :
    /\ c # d
    /\ calls[c].path = "traced"
    /\ calls[d].path = "traced"
    /\ calls[c].builder = calls[d].builder
    /\ "contextSymbol" \in DOMAIN builders[calls[c].builder]
    /\ calls[c].ambient # calls[d].ambient
    /\ spans[c][1].parent = builders[calls[c].builder].createdIn
    /\ spans[d][1].parent = builders[calls[c].builder].createdIn

\* C16: each span's parent is the context its own builder resolves to, each
\* span is ended, and has ERROR status, according to its own call alone,
\* and the step in which one call's promise chain reacts changes no other
\* call and no other call's span.
C16_QueriesIndependent ==
  /\ [](\A c \in Calls :
          calls[c].path = "traced"
            => /\ spans[c][1].parent =
                    ResolvedContext(builders[calls[c].builder],
                                    calls[c].ambient)
               /\ spans[c][1].ended =
                    (IF calls[c].chain = Pending THEN 0 ELSE 1)
               /\ (spans[c][1].status.code = "ERROR"
                     <=> (calls[c].chain # Pending
                            /\ calls[c].host.kind = "rejected")))
  /\ [][\A c \in Calls :
          (/\ calls[c].path = "traced"
           /\ calls'[c].path = "traced"
           /\ calls[c].chain = Pending
           /\ calls'[c].chain # Pending)
            => \A d \in Calls \ {c} :
                 calls'[d] = calls[d] /\ spans'[d] = spans[d]]_vars

\* Two executions on two builders made under different contexts are in
\* flight together: one has failed, its span ended with ERROR status, while
\* the other's span is still open with its status unset.
C16_Witness ==
  \E c, d \in Calls :
    /\ c # d
    /\ calls[c].path = "traced"
    /\ calls[d].path = "traced"
    /\ calls[c].builder # calls[d].builder
    /\ spans[c][1].parent # spans[d][1].parent
    /\ calls[c].chain.kind = "rejected"
    /\ spans[c][1].ended = 1
    /\ spans[c][1].status.code = "ERROR"
    /\ calls[d].chain = Pending
    /\ spans[d][1].ended = 0
    /\ spans[d][1].status = [code |-> "UNSET"]

\* C17: an intercepted call is passed through or traced, and its span has
\* a statement or not, according to the configuration in force when the
\* call is made; a change of the configuration changes no call, no span and
\* no installed wrapper; and a call that has started keeps its path and
\* its span's attributes.
C17_ConfigReadAtEachCall ==
  /\ [][\A c \in Calls :
          (QueryStarts(c) /\ Intercepted(calls'[c]))
            => /\ calls'[c].path = "bypass"
                    <=> (/\ Truthy(config.requireParentSpan)
                         /\ ~HoldsValidSpan(
                               ResolvedContext(builders[calls'[c].builder],
                                               calls'[c].ambient)))
               /\ calls'[c].path = "traced"
                    => ("db.statement" \in DOMAIN spans'[c][1].attributes
                          <=> Truthy(config.maxQueryLength))]_vars
  /\ [][config' # config
          => calls' = calls /\ spans' = spans /\ proto' = proto]_vars
  /\ [][\A c \in Calls :
          (Intercepted(calls[c]) /\ ~QueryStarts(c))
            => /\ calls'[c].path = calls[c].path
               /\ Len(spans'[c]) = Len(spans[c])
               /\ (spans[c] # <<>>
                     => /\ spans'[c][1].attributes = spans[c][1].attributes
                        /\ spans'[c][1].parent = spans[c][1].parent)]_vars

\* A call traced with a statement is still in flight while the same query
\* on the same builder under the same ambient context, made after the
\* configuration was changed, was passed through by the same wrapper.
C17_Witness ==
  \E c, d \in Calls :
    /\ c # d
    /\ calls[c].path = "traced"
    /\ calls[c].chain = Pending
    /\ "db.statement" \in DOMAIN spans[c][1].attributes
    /\ calls[d].path = "bypass"
    /\ calls[d].builder = calls[c].builder
    /\ calls[d].ambient = calls[c].ambient
    /\ calls[d].query = calls[c].query
    /\ Truthy(config.requireParentSpan)
    /\ Len(proto["query"]) = 1

====
